---- MODULE Spec2Model ----
(***************************************************************************)
(* A model of the Proton example programs of amqp-proton-demo.             *)
(*                                                                         *)
(* Part 1: send_across_threads.cpp.  A container thread runs the handler   *)
(* callbacks (on_sender_open, on_sendable, on_error) and the closures of   *)
(* the sender's work queue; foreground threads call MyHandler::send().     *)
(* The handler's fields are shared between them, guarded (in part) by the  *)
(* mutex `lock` and the condition variable `ready_to_send`.                *)
(*                                                                         *)
(* error_raised is written (on_error) and read (send, after the atomic     *)
(* section) without the mutex.  The accesses are to one bool, so the       *)
(* outcomes a build produces are the interleavings of the single load and  *)
(* the single store; the model makes each of them a step of its own.       *)
(*                                                                         *)
(* Part 2: send_lots.cpp, send_lots_tls.cpp, send_lots_leaky.cpp.  One     *)
(* container thread runs on_sendable and the tracker callbacks of a        *)
(* sender that is to send number_to_send messages.                         *)
(*                                                                         *)
(* Part 3: the receiving programs.  One container thread passes the        *)
(* deliveries of a receiver link to on_message; Proton then gives its      *)
(* default response and tops the link's credit up to the credit window.    *)
(*                                                                         *)
(* Part 4: receive_lots_multiple_connections.cpp and                       *)
(* container_per_thread.cpp.  Several threads run on_message at once: two  *)
(* worker threads of one container over two connections, or one thread     *)
(* per container.  The increment of a handler's counter is a load and a    *)
(* store.                                                                  *)
(*                                                                         *)
(* Part 5: server.cpp.  Clients connect to the listener and attach links;  *)
(* on_receiver_open checks the target address.                             *)
(*                                                                         *)
(* main() of send_across_threads (the send loop, container.stop(), join)   *)
(* is specified apart from the handler used by several threads.            *)
(*                                                                         *)
(* Each part has a specification of its own; the variables of the other    *)
(* parts stay at their initial values.                                     *)
(***************************************************************************)
EXTENDS Integers, Sequences, FiniteSets, TLC

\* ---- bounds -------------------------------------------------------------
NumThreads == 2     \* foreground threads calling MyHandler::send()
MaxCalls == 1       \* send() calls made by one foreground thread
MaxGrant == 1       \* total link credit the peer grants to the sender

\* main(): int count = 3, the messages the foreground thread sends
count == 3

\* The foreground thread that is main()
Main == 1

Threads == 1..NumThreads

\* Holders of the mutex other than the foreground threads.
Free == 0
Container == -1

VARIABLES
  \* send_across_threads: MyHandler fields
  work_queue,             \* TRUE when the work_queue pointer is non-null
  sender,                 \* TRUE when on_sender_open has stored the sender
  current_sender_credit,  \* credit recorded by on_sendable
  error_raised,           \* set by on_error
  lock,                   \* holder of the mutex: Free, Container or a thread
  waiters,                \* threads blocked in ready_to_send.wait
  \* send_across_threads: control state
  pc,                     \* position of each foreground thread in send()
  calls,                  \* send() calls begun by each foreground thread
  cpc,                    \* position of the container thread
  \* send_across_threads: the sender link and its work queue
  link_credit,            \* s.credit(): the link's credit
  granted,                \* total credit granted by the peer
  queue,                  \* closures pending in the sender's work queue
  transfers,              \* closures executed: calls of sender.send
  last_run,               \* per thread, the send() call whose closure ran last
  \* send_across_threads: main() and the container it runs
  container,              \* "running", "stopping" (stop() called), "stopped"
  limit                   \* send() calls each foreground thread makes

VARIABLES
  \* send_lots, send_lots_tls, send_lots_leaky: LoggingHandler fields
  variant,                \* which of the three programs runs
  number_to_send,         \* messages the handler is to send
  sent,                   \* messages sent so far
  closed,                 \* set once connection.close() has been called
  \* send_lots: the sender link, its transfers and the connection
  s_credit,               \* s.credit(): the link's credit
  s_granted,              \* total credit granted by the peer
  unoffered,              \* credit arrived that no on_sendable has seen yet
  disposition,            \* state of each transfer
  creditless_sends,       \* calls of s.send made without credit
  close_calls,            \* calls of connection.close()
  closed_on,              \* the transfer whose accept led to close(), or 0
  leaked                  \* message objects allocated with new and not deleted

slVars == <<variant, number_to_send, sent, closed, s_credit, s_granted,
            unoffered, disposition, creditless_sends, close_calls, closed_on,
            leaked>>

VARIABLES
  \* the receiving programs: handler fields
  prog,                   \* which receiving program runs
  number_to_receive,      \* LoggingHandler::number_to_receive
  received,               \* LoggingHandler::received, MyHandler::count
  \* the receiving programs: the receiver link and its deliveries
  rpc,                    \* position of the container thread
  r_credit,               \* credit the peer holds and has not used
  r_delivery,             \* state of each delivery transferred, in order
  r_by,                   \* who gave each delivery its disposition
  r_dispatched,           \* deliveries passed to on_message
  r_settled,              \* deliveries whose settlement event has been seen
  cur_body,               \* body of the message last passed to on_message
  r_close_calls,          \* calls of connection.close()
  r_filter                \* entries of the filter map sent with the attach

VARIABLES
  \* receive_lots_multiple_connections, container_per_thread
  m_prog,                 \* which of the two programs runs
  m_total,                \* LoggingHandler::number_to_receive
  m_count,                \* per handler: received, or count
  m_pending,              \* per connection: deliveries not yet dispatched
  m_dispatched,           \* per connection: calls of on_message begun
  m_worker,               \* per thread: what it serves and where it is
  m_stopped,              \* container.stop() has been called
  m_touched,              \* per handler: the threads that used its counter
  m_settled               \* per connection: outcomes given, and by whom

mVars == <<m_prog, m_total, m_count, m_pending, m_dispatched, m_worker,
           m_stopped, m_touched, m_settled>>

VARIABLES
  \* server
  v_conn,                 \* per client: state of its connection
  v_error,                \* per client: condition the connection closed with
  v_links,                \* per client: the links attached, in order
  v_received              \* messages passed to on_message

vVars == <<v_conn, v_error, v_links, v_received>>

VARIABLES
  \* receive_lots_multiple_consumers
  k_total,                \* LoggingHandler::number_to_receive
  k_received,             \* per counter: received
  k_conn,                 \* state of the one connection
  k_receivers,            \* receivers opened on the connection, in order
  k_pending,              \* per receiver: deliveries not yet dispatched
  k_invoked,              \* per receiver: calls of on_message made
  k_stop_calls,           \* calls of container.stop()
  k_stop_at               \* on_message calls made when stop() was called

kVars == <<k_total, k_received, k_conn, k_receivers, k_pending, k_invoked,
           k_stop_calls, k_stop_at>>

VARIABLES
  \* send_receive_failover
  f_pc,                   \* position of the program
  f_up,                   \* per broker: it accepts connections
  f_changes,              \* times a broker went down or came up
  f_state,                \* per connection: its state
  f_at,                   \* per connection: the broker that accepted it
  f_tried,                \* per connection: brokers tried since it failed
  f_local,                \* per connection: links the handler opened on it
  f_remote,               \* per connection: links attached at the broker
  f_opens,                \* calls of open_receiver and open_sender
  f_failures,             \* per connection: transport failures
  f_reported,             \* per connection: host on_connection_open printed
  f_sent,                 \* MyHandler::sent
  f_received,             \* MyHandler::received
  f_called,               \* per connection: its callback ran since it opened
  f_credit,               \* credit of the sender on its current attachment
  f_inflight,             \* messages sent that no broker has settled yet
  f_accepted              \* messages a broker has accepted

foVars == <<f_pc, f_up, f_changes, f_state, f_at, f_tried, f_local, f_remote,
            f_opens, f_failures, f_reported, f_sent, f_received, f_called,
            f_credit, f_inflight, f_accepted>>

rVars == <<prog, number_to_receive, received, rpc, r_credit, r_delivery, r_by,
           r_dispatched, r_settled, cur_body, r_close_calls, r_filter>>

mainVars == <<container, limit>>

satVars == <<work_queue, sender, current_sender_credit, error_raised, lock,
             waiters, pc, calls, cpc, link_credit, granted, queue, transfers,
             last_run, mainVars>>

vars ==
  <<satVars, slVars, rVars, mVars, vVars, kVars, foVars>>

\* What the actions of one program leave alone: the other programs.
notSAT ==
  <<slVars, rVars, mVars, vVars, kVars, foVars>>
notSL ==
  <<satVars, rVars, mVars, vVars, kVars, foVars>>
notR ==
  <<satVars, slVars, mVars, vVars, kVars, foVars>>
notM ==
  <<satVars, slVars, rVars, vVars, kVars, foVars>>
notV ==
  <<satVars, slVars, rVars, mVars, kVars, foVars>>
notFO == <<satVars, slVars, rVars, mVars, vVars, kVars>>
notK ==
  <<satVars, slVars, rVars, mVars, vVars, foVars>>

\* ---- send_across_threads ------------------------------------------------

\* MyHandler::MyHandler, and the container thread started by main()
HandlerInit ==
  /\ work_queue = FALSE
  /\ sender = FALSE
  /\ current_sender_credit = 0
  /\ error_raised = FALSE
  /\ lock = Free
  /\ waiters = {}
  /\ pc = [t \in Threads |-> "idle"]
  /\ calls = [t \in Threads |-> 0]
  /\ cpc = "idle"
  /\ link_credit = 0
  /\ granted = 0
  /\ queue = <<>>
  /\ transfers = 0
  /\ last_run = [t \in Threads |-> 0]
  /\ container = "running"

\* Foreground threads that each call send() MaxCalls times.
SATInit ==
  /\ HandlerInit
  /\ limit = [t \in Threads |-> MaxCalls]

\* main(): one foreground thread that calls send() count times.
MainInit ==
  /\ HandlerInit
  /\ limit = [t \in Threads |-> IF t = Main THEN count ELSE 0]

\* container.run() has not returned: callbacks and closures still run.
Running == container # "stopped"

\* ready_to_send.notify_all(): every thread blocked in wait is woken and
\* must re-acquire the mutex before it returns from wait.
NotifyAll ==
  /\ waiters' = {}
  /\ pc' = [t \in Threads |-> IF t \in waiters THEN "woken" ELSE pc[t]]

\* on_sender_open: under the mutex, store the sender and its work queue.
OnSenderOpen ==
  /\ Running
  /\ cpc = "idle"
  /\ ~work_queue
  /\ lock = Free
  /\ sender' = TRUE
  /\ work_queue' = TRUE
  /\ UNCHANGED <<notSAT, mainVars, last_run,
                 current_sender_credit, error_raised, lock, waiters, pc,
                 calls, cpc, link_credit, granted, queue, transfers>>

\* A flow performative from the peer grants g more units of credit.
Flow(g) ==
  /\ Running
  /\ cpc = "idle"
  /\ work_queue
  /\ granted + g <= MaxGrant
  /\ link_credit' = link_credit + g
  /\ granted' = granted + g
  /\ UNCHANGED <<notSAT, mainVars, last_run,
                 work_queue, sender, current_sender_credit, error_raised,
                 lock, waiters, pc, calls, cpc, queue, transfers>>

\* on_sendable, first step: take the mutex.  The container calls
\* on_sendable when the link is open and has credit.
OnSendableLock ==
  /\ Running
  /\ cpc = "idle"
  /\ work_queue
  /\ link_credit > 0
  /\ lock = Free
  /\ lock' = Container
  /\ cpc' = "sendable_notify"
  /\ UNCHANGED <<notSAT, mainVars, last_run,
                 work_queue, sender, current_sender_credit, error_raised,
                 waiters, pc, calls, link_credit, granted, queue, transfers>>

\* on_sendable notifying after it let go of the mutex.
OnSendableNotify_Unlocked ==
  /\ cpc = "sendable_notify"
  /\ NotifyAll
  /\ lock' = Free
  /\ cpc' = "sendable_store"
  /\ UNCHANGED <<notSAT, mainVars, last_run,
                 work_queue, sender, current_sender_credit, error_raised,
                 calls, link_credit, granted, queue, transfers>>

\* on_sendable, second step: ready_to_send.notify_all()
OnSendableNotify ==
  /\ cpc = "sendable_notify"
  /\ NotifyAll
  /\ cpc' = "sendable_store"
  /\ UNCHANGED <<notSAT, mainVars, last_run,
                 work_queue, sender, current_sender_credit, error_raised,
                 lock, calls, link_credit, granted, queue, transfers>>

\* on_sendable recording the credit left once the pending closures have run.
RecordedCredit_LessPending == link_credit - Len(queue)

\* The value on_sendable records: s.credit().
RecordedCredit == link_credit

\* on_sendable, last step: current_sender_credit = s.credit(), then the
\* lock_guard releases the mutex.
OnSendableStore ==
  /\ cpc = "sendable_store"
  /\ current_sender_credit' = RecordedCredit
  /\ lock' = Free
  /\ cpc' = "idle"
  /\ UNCHANGED <<notSAT, mainVars, last_run,
                 work_queue, sender, error_raised, waiters, pc, calls,
                 link_credit, granted, queue, transfers>>

\* on_error, first step: error_raised = true (the mutex is not taken).
OnErrorStore ==
  /\ Running
  /\ cpc = "idle"
  /\ error_raised' = TRUE
  /\ cpc' = "error_notify"
  /\ UNCHANGED <<notSAT, mainVars, last_run,
                 work_queue, sender, current_sender_credit, lock, waiters,
                 pc, calls, link_credit, granted, queue, transfers>>

\* on_error, second step: ready_to_send.notify_all()
OnErrorNotify ==
  /\ cpc = "error_notify"
  /\ NotifyAll
  /\ cpc' = "idle"
  /\ UNCHANGED <<notSAT, mainVars, last_run,
                 work_queue, sender, current_sender_credit, error_raised,
                 lock, calls, link_credit, granted, queue, transfers>>

\* The container pops a closure off the work queue and runs it:
\* this->sender.send (msg).  The link's credit goes down by one.
RunClosure ==
  /\ Running
  /\ cpc = "idle"
  /\ queue # <<>>
  /\ queue' = Tail(queue)
  /\ link_credit' = link_credit - 1
  /\ transfers' = transfers + 1
  /\ last_run' = [last_run EXCEPT ![Head(queue)[1]] = Head(queue)[2]]
  /\ UNCHANGED <<notSAT, mainVars,
                 work_queue, sender, current_sender_credit, error_raised,
                 lock, waiters, pc, calls, cpc, granted>>

\* A wait loop that does not look at the error flag.
WaitPredicate_NoErrorTest ==
  ~work_queue /\ current_sender_credit = 0

\* A send() that never waits.
WaitPredicate_NoWait == FALSE

\* The condition of the wait loop of send().
WaitPredicate ==
  ~work_queue /\ (current_sender_credit = 0 /\ ~error_raised)

\* A foreground thread calls h.send().
SendCall(t) ==
  /\ pc[t] = "idle"
  /\ calls[t] < limit[t]
  /\ pc' = [pc EXCEPT ![t] = "lock"]
  /\ calls' = [calls EXCEPT ![t] = @ + 1]
  /\ UNCHANGED <<notSAT, mainVars, last_run,
                 work_queue, sender, current_sender_credit, error_raised,
                 lock, waiters, cpc, link_credit, granted, queue, transfers>>

\* std::unique_lock l(lock)
SendLock(t) ==
  /\ pc[t] = "lock"
  /\ lock = Free
  /\ lock' = t
  /\ pc' = [pc EXCEPT ![t] = "test"]
  /\ UNCHANGED <<notSAT, mainVars, last_run,
                 work_queue, sender, current_sender_credit, error_raised,
                 waiters, calls, cpc, link_credit, granted, queue, transfers>>

\* Evaluate the loop condition with the mutex held: either go on to wait,
\* or leave the loop and the atomic section (the mutex is released).
SendTest(t) ==
  /\ pc[t] = "test"
  /\ IF WaitPredicate
       THEN /\ pc' = [pc EXCEPT ![t] = "towait"]
            /\ UNCHANGED lock
       ELSE /\ pc' = [pc EXCEPT ![t] = "check"]
            /\ lock' = Free
  /\ UNCHANGED <<notSAT, mainVars, last_run,
                 work_queue, sender, current_sender_credit, error_raised,
                 waiters, calls, cpc, link_credit, granted, queue, transfers>>

\* ready_to_send.wait (l): release the mutex and block.
SendWait(t) ==
  /\ pc[t] = "towait"
  /\ lock' = Free
  /\ waiters' = waiters \cup {t}
  /\ pc' = [pc EXCEPT ![t] = "waiting"]
  /\ UNCHANGED <<notSAT, mainVars, last_run,
                 work_queue, sender, current_sender_credit, error_raised,
                 calls, cpc, link_credit, granted, queue, transfers>>

\* std::condition_variable::wait may return without a notification.
SpuriousWake(t) ==
  /\ pc[t] = "waiting"
  /\ waiters' = waiters \ {t}
  /\ pc' = [pc EXCEPT ![t] = "woken"]
  /\ UNCHANGED <<notSAT, mainVars, last_run,
                 work_queue, sender, current_sender_credit, error_raised,
                 lock, calls, cpc, link_credit, granted, queue, transfers>>

\* wait re-acquires the mutex before it returns; the loop tests again.
SendRelock(t) ==
  /\ pc[t] = "woken"
  /\ lock = Free
  /\ lock' = t
  /\ pc' = [pc EXCEPT ![t] = "test"]
  /\ UNCHANGED <<notSAT, mainVars, last_run,
                 work_queue, sender, current_sender_credit, error_raised,
                 waiters, calls, cpc, link_credit, granted, queue, transfers>>

\* send() going on to enqueue whatever the error flag says.
ErrorBranch_Ignored == "add"

\* The branch taken by `if (error_raised)` after the atomic section.
ErrorBranch == IF error_raised THEN "threw" ELSE "add"

\* if (error_raised) throw std::runtime_error (...)
SendCheck(t) ==
  /\ pc[t] = "check"
  /\ pc' = [pc EXCEPT ![t] = ErrorBranch]
  /\ UNCHANGED <<notSAT, mainVars, last_run,
                 work_queue, sender, current_sender_credit, error_raised,
                 lock, waiters, calls, cpc, link_credit, granted, queue,
                 transfers>>

\* A work queue that puts a new closure in front of the pending ones.
Enqueue_InFront(q, c) == <<c>> \o q

\* work_queue->add(c): the closure goes behind the pending ones.  A closure
\* is named by the thread and the send() call that made it.
Enqueue(q, c) == Append(q, c)

\* send() calling sender.send itself, on the foreground thread.
Submit_Direct(t) ==
  /\ transfers' = transfers + 1
  /\ link_credit' = link_credit - 1
  /\ UNCHANGED queue

\* work_queue->add([=]() { this->sender.send (msg); }): send() hands the
\* call of sender.send to the container and does not touch the link.
Submit(t) ==
  /\ queue' = Enqueue(queue, <<t, calls[t]>>)
  /\ UNCHANGED <<transfers, link_credit>>

\* The else branch of send(); send() returns.
\* A null work_queue is dereferenced here: the thread crashes.
SendAdd(t) ==
  /\ pc[t] = "add"
  /\ IF work_queue
       THEN /\ Submit(t)
            /\ pc' = [pc EXCEPT ![t] = "idle"]
       ELSE /\ pc' = [pc EXCEPT ![t] = "crashed"]
            /\ UNCHANGED <<queue, transfers, link_credit>>
  /\ UNCHANGED <<notSAT, mainVars, last_run,
                 work_queue, sender, current_sender_credit, error_raised,
                 lock, waiters, calls, cpc, granted>>

ThreadStep(t) ==
  \/ SendCall(t)
  \/ SendLock(t)
  \/ SendTest(t)
  \/ SendWait(t)
  \/ SendRelock(t)
  \/ SendCheck(t)
  \/ SendAdd(t)

ContainerStep ==
  \/ OnSendableNotify
  \/ OnSendableStore
  \/ OnErrorNotify
  \/ RunClosure

SATNext ==
  \/ OnSenderOpen
  \/ \E g \in 1..MaxGrant : Flow(g)
  \/ OnSendableLock
  \/ OnErrorStore
  \/ ContainerStep
  \/ \E t \in Threads : ThreadStep(t)
  \/ \E t \in Threads : SpuriousWake(t)

\* main(): the send loop is over, because count calls of send() returned or
\* because a send() threw and the exception was caught: container.stop().
MainStop ==
  /\ container = "running"
  /\ \/ pc[Main] = "threw"
     \/ pc[Main] = "idle" /\ calls[Main] = limit[Main]
  /\ container' = "stopping"
  /\ pc' = [pc EXCEPT ![Main] = "join"]
  /\ UNCHANGED <<notSAT, limit, last_run, work_queue, sender,
                 current_sender_credit, error_raised, lock, waiters, calls,
                 cpc, link_credit, granted, queue, transfers>>

\* container.run() returns in the container thread once stop() has been
\* called and the callback in progress is over.  Closures still pending are
\* not run after that.
RunReturns ==
  /\ container = "stopping"
  /\ cpc = "idle"
  /\ container' = "stopped"
  /\ UNCHANGED <<notSAT, limit, last_run, work_queue, sender,
                 current_sender_credit, error_raised, lock, waiters, pc, calls,
                 cpc, link_credit, granted, queue, transfers>>

\* container_thread.join() returns when the container thread has finished.
MainJoin ==
  /\ pc[Main] = "join"
  /\ container = "stopped"
  /\ pc' = [pc EXCEPT ![Main] = "done"]
  /\ UNCHANGED <<notSAT, mainVars, last_run, work_queue, sender,
                 current_sender_credit, error_raised, lock, waiters, calls,
                 cpc, link_credit, granted, queue, transfers>>

MainStep ==
  \/ MainStop
  \/ MainJoin

MainNext ==
  \/ SATNext
  \/ MainStep
  \/ RunReturns

\* ---- send_lots, send_lots_tls, send_lots_leaky ---------------------------

MaxToSend == 3      \* largest number_to_send tried
MaxSGrant == 4      \* total link credit the peer grants to the sender

Variants == {"send_lots", "send_lots_tls", "send_lots_leaky"}
Transfers == 1..MaxToSend

\* The programs of this part do not run.
SLIdle ==
  /\ variant = "none"
  /\ number_to_send = 0
  /\ sent = 0
  /\ closed = FALSE
  /\ s_credit = 0
  /\ s_granted = 0
  /\ unoffered = FALSE
  /\ disposition = [i \in Transfers |-> "unsent"]
  /\ creditless_sends = 0
  /\ close_calls = 0
  /\ closed_on = 0
  /\ leaked = 0

\* LoggingHandler::LoggingHandler, for one of the programs and one
\* number_to_send.
SLInit ==
  /\ variant \in Variants
  /\ number_to_send \in 0..MaxToSend
  /\ sent = 0
  /\ closed = FALSE
  /\ s_credit = 0
  /\ s_granted = 0
  /\ unoffered = FALSE
  /\ disposition = [i \in Transfers |-> "unsent"]
  /\ creditless_sends = 0
  /\ close_calls = 0
  /\ closed_on = 0
  /\ leaked = 0

\* A flow performative from the peer grants g more units of credit.
SFlow(g) ==
  /\ s_granted + g <= MaxSGrant
  /\ s_credit' = s_credit + g
  /\ s_granted' = s_granted + g
  /\ unoffered' = TRUE
  /\ UNCHANGED <<notSL, variant, number_to_send, sent, closed, disposition,
                 creditless_sends, close_calls, closed_on, leaked>>

\* The credit test of the loop: `s.credit() > 0` in send_lots,
\* `s.credit()` in send_lots_tls and send_lots_leaky.
HasCredit(c) == IF variant = "send_lots" THEN c > 0 ELSE c # 0

\* A loop that sends for as long as there is credit.
KeepSending_Uncounted(c, n) == HasCredit(c)

\* The loop condition of on_sendable, with credit c and n messages sent.
KeepSending(c, n) == HasCredit(c) /\ n < number_to_send

\* The loop of on_sendable, from credit c, n messages sent and k of them
\* sent without credit: each turn sends one message (the link's credit goes
\* down by one) and counts it.
RECURSIVE SendLoop(_, _, _)
SendLoop(c, n, k) ==
  IF KeepSending(c, n)
    THEN SendLoop(c - 1, n + 1, IF c > 0 THEN k ELSE k + 1)
    ELSE <<c, n, k>>

\* send_lots_leaky with its `delete (msg)` in place.
LeftAllocated_Deleted == IF variant = "send_lots_leaky" THEN 0 ELSE 0

\* Message objects one turn of the loop leaves allocated: the message is a
\* local object in send_lots and send_lots_tls; send_lots_leaky makes it
\* with new and never deletes it.
LeftAllocated == IF variant = "send_lots_leaky" THEN 1 ELSE 0

\* on_sendable
OnSendable ==
  LET r == SendLoop(s_credit, sent, creditless_sends) IN
  /\ variant \in Variants
  /\ leaked' = leaked + (r[2] - sent) * LeftAllocated
  /\ s_credit' = r[1]
  /\ sent' = r[2]
  /\ creditless_sends' = r[3]
  /\ disposition' = [i \in Transfers |->
                       IF i > sent /\ i <= r[2] THEN "unsettled"
                                                ELSE disposition[i]]
  /\ unoffered' = FALSE
  /\ UNCHANGED <<notSL, variant, number_to_send, closed, s_granted,
                 close_calls, closed_on>>

\* on_tracker_accept without its closed flag.
ShouldClose_Unflagged == sent = number_to_send

\* on_tracker_accept without its call of close().
ShouldClose_Never == FALSE

\* A handler that closes on the first accept, whatever has been sent.
ShouldClose_AnyAccept == ~closed

\* The condition of on_tracker_accept.
ShouldClose == sent = number_to_send /\ ~closed

\* on_tracker_accept: the peer has accepted transfer i.
OnTrackerAccept(i) ==
  /\ disposition[i] = "unsettled"
  /\ disposition' = [disposition EXCEPT ![i] = "accepted"]
  /\ IF ShouldClose
       THEN /\ close_calls' = close_calls + 1
            /\ closed' = TRUE
            /\ closed_on' = i
       ELSE UNCHANGED <<close_calls, closed, closed_on>>
  /\ UNCHANGED <<notSL, variant, number_to_send, sent, s_credit, s_granted,
                 unoffered, creditless_sends, leaked>>

\* on_tracker_reject: the peer has rejected transfer i; the handler logs.
OnTrackerReject(i) ==
  /\ disposition[i] = "unsettled"
  /\ disposition' = [disposition EXCEPT ![i] = "rejected"]
  /\ UNCHANGED <<notSL, variant, number_to_send, sent, closed, s_credit,
                 s_granted, unoffered, creditless_sends, close_calls,
                 closed_on, leaked>>

SLNext ==
  \/ \E g \in 1..MaxSGrant : SFlow(g)
  \/ OnSendable
  \/ \E i \in Transfers : OnTrackerAccept(i)
  \/ \E i \in Transfers : OnTrackerReject(i)

\* ---- send_lots: properties ----------------------------------------------

\* Transfers handed to the link so far.
Sent == {i \in Transfers : disposition[i] # "unsent"}
Unsettled == {i \in Transfers : disposition[i] = "unsettled"}

\* C4 (as claimed): connection.close() is called only on the accept of the
\* last, number_to_send-th, transfer.
C4_ClosedOnLastAccept == closed => closed_on = number_to_send

\* C4 (amended): connection.close() is called only on an accept that is
\* observed when all number_to_send transfers have been sent; the transfer
\* accepted is one of them.
C4_ClosedOnAcceptAfterAllSent ==
  close_calls > 0 =>
    /\ sent = number_to_send
    /\ closed_on \in 1..number_to_send
    /\ disposition[closed_on] = "accepted"

\* C4 witness: close() was called on the accept of an earlier transfer while
\* a later one was still unsettled.
C4_Witness ==
  /\ closed
  /\ closed_on < number_to_send
  /\ \E i \in Unsettled : i > closed_on

\* C5: sent never exceeds number_to_send, every transfer is one counted
\* send, every send is made with credit, and once on_sendable has seen the
\* credit granted, either all number_to_send messages are sent or the
\* credit is used up.
C5_SendsExactlyNumberToSend ==
  /\ sent <= number_to_send
  /\ Cardinality(Sent) = sent
  /\ creditless_sends = 0
  /\ sent + s_credit = s_granted
  /\ ~unoffered => (sent = number_to_send \/ s_credit = 0)

\* C5 witness: all messages are sent and credit is left over that no
\* further on_sendable spends.
C5_Witness ==
  /\ number_to_send > 0
  /\ sent = number_to_send
  /\ s_credit > 0
  /\ ~unoffered

\* C28: in send_lots_leaky the message objects allocated and not released
\* number exactly sent, in every state and so after every send; the other
\* two programs leave none.
C28_LeakEqualsSent ==
  /\ variant = "send_lots_leaky" => leaked = sent
  /\ variant \in {"send_lots", "send_lots_tls"} => leaked = 0

\* C28 witness: send_lots_leaky has sent all its messages, more than one,
\* and closed the connection; as many objects are still allocated.
C28_Witness ==
  /\ variant = "send_lots_leaky"
  /\ number_to_send > 1
  /\ sent = number_to_send
  /\ leaked = number_to_send
  /\ s_granted = number_to_send
  /\ closed

\* The peer reports transfer i as accepted in this step.
AcceptOf(i) == disposition[i] = "unsettled" /\ disposition'[i] = "accepted"

\* C31: connection.close() is called at most once, the closed flag is true
\* exactly from that call on, an on_tracker_accept that finds sent equal to
\* number_to_send leaves the flag true, and an on_tracker_accept that finds
\* the flag true calls no close() and leaves sent, number_to_send and the
\* flag as they are.
C31_ClosesAtMostOnce ==
  /\ [](close_calls <= 1 /\ (closed <=> close_calls = 1))
  /\ [][\A i \in Transfers :
         AcceptOf(i) =>
           /\ sent = number_to_send => closed'
           /\ closed => UNCHANGED <<close_calls, closed, closed_on, sent,
                                     number_to_send>>]_vars

\* C31 witness: with two messages to send, close() was called on the accept
\* of the first, and the second was accepted after it.
C31_Witness ==
  /\ number_to_send = 2
  /\ close_calls = 1
  /\ closed_on = 1
  /\ disposition[2] = "accepted"

\* Every transfer that is sent is eventually reported as accepted.
EverySentAccepted ==
  \A i \in Transfers :
    (disposition[i] = "unsettled") ~> (disposition[i] = "accepted")

\* close() is called only in an on_tracker_accept that finds sent equal to
\* number_to_send: rejections, and accepts that arrive before all messages
\* are sent, call none.
CloseOnlyOnAcceptAfterAllSent ==
  [][close_calls' # close_calls =>
       /\ sent = number_to_send
       /\ \E i \in Transfers : AcceptOf(i)]_vars

\* C32 (as claimed): if number_to_send > 0 and every transfer that is sent
\* is eventually reported as accepted, close() is eventually called; and
\* close() is not called unless an accept arrives once sent has reached
\* number_to_send.
C32_AcceptedMeansClosed ==
  /\ (number_to_send > 0 /\ EverySentAccepted) => <>(close_calls > 0)
  /\ CloseOnlyOnAcceptAfterAllSent

\* C32 (amended): if number_to_send > 0, the peer grants credit for
\* number_to_send transfers in all, and every transfer that is sent is
\* eventually reported as accepted, close() is eventually called; and
\* close() is not called unless an accept arrives once sent has reached
\* number_to_send.
C32_CreditedAndAcceptedMeansClosed ==
  /\ ( /\ number_to_send > 0
       /\ <>(s_granted >= number_to_send)
       /\ EverySentAccepted ) => <>(close_calls > 0)
  /\ CloseOnlyOnAcceptAfterAllSent

\* C32 witness: credit for every message was granted, every message was
\* sent and accepted, and close() has been called.
C32_Witness ==
  /\ number_to_send > 1
  /\ s_granted >= number_to_send
  /\ \A i \in 1..number_to_send : disposition[i] = "accepted"
  /\ close_calls = 1

\* ---- the receiving programs ---------------------------------------------
\* receive_lots, receive_selector, receive_client_ack, container_per_thread
\* (one of its containers) and server: one receiver link, whose deliveries
\* the container passes to on_message one at a time.

MaxDeliveries == 4  \* deliveries transferred to a receiver
MaxExtra == 2       \* ... beyond the credit window, where the window is set

Receivers == {"receive_lots", "receive_selector", "receive_client_ack",
              "container_per_thread", "server"}

\* Message bodies: an AMQP string, a symbol, a number.
Bodies == {"string", "symbol", "int"}

\* The credit window of the receiver: receive_lots sets 3,
\* container_per_thread sets 10, `actually the default'.
credit_window(p) == IF p = "receive_lots" THEN 3 ELSE 10

\* Only container_per_thread calls auto_accept (false); the default
\* response of Proton is to accept the delivery.
auto_accept(p) == p # "container_per_thread"

\* Deliveries the peer transfers at most in a run.
DeliveryLimit(p) ==
  IF p \in {"receive_lots", "container_per_thread"}
    THEN credit_window(p) + MaxExtra
    ELSE MaxDeliveries

\* The programs of this part do not run.
RIdle ==
  /\ prog = "none"
  /\ number_to_receive = 0
  /\ received = 0
  /\ rpc = "unopened"
  /\ r_credit = 0
  /\ r_delivery = <<>>
  /\ r_by = <<>>
  /\ r_dispatched = 0
  /\ r_settled = 0
  /\ cur_body = "none"
  /\ r_close_calls = 0
  /\ r_filter = {}

\* The handler's constructor, for one of the programs; receive_lots and
\* receive_selector are given a number of messages to receive.
RInit ==
  /\ prog \in Receivers
  /\ number_to_receive \in
       IF prog \in {"receive_lots", "receive_selector"}
         THEN 1..DeliveryLimit(prog) ELSE {0}
  /\ received = 0
  /\ rpc = "unopened"
  /\ r_credit = 0
  /\ r_delivery = <<>>
  /\ r_by = <<>>
  /\ r_dispatched = 0
  /\ r_settled = 0
  /\ cur_body = "none"
  /\ r_close_calls = 0
  /\ r_filter = {}

\* Deliveries transferred and not yet passed to on_message.
Queued == Len(r_delivery) - r_dispatched

\* receive_selector, main: std::string selector = "foo='bar'"
selector == "foo='bar'"

\* set_filter_on_source_opts: a filter map with the one key my_selector,
\* whose value is the selector string described as a selector filter.
set_filter_on_source_opts(selector_str) ==
  {[key |-> "my_selector",
    descriptor |-> "apache.org:selector-filter:string",
    value |-> selector_str]}

\* The filters of the source options the receiver is opened with: only
\* receive_selector sets any.
SourceFilters(p) ==
  IF p = "receive_selector" THEN set_filter_on_source_opts(selector) ELSE {}

\* on_container_start opens the receiver (server: a client attaches one);
\* the link grants its credit window to the peer.
ReceiverOpen ==
  /\ rpc = "unopened"
  /\ rpc' = "idle"
  /\ r_credit' = credit_window(prog)
  /\ r_filter' = SourceFilters(prog)
  /\ UNCHANGED <<notR, prog, number_to_receive, received, r_delivery, r_by,
                 r_dispatched, r_settled, cur_body, r_close_calls>>

\* The peer transfers a message, using one unit of credit.
Transfer ==
  /\ rpc = "idle"
  /\ r_credit > 0
  /\ Len(r_delivery) < DeliveryLimit(prog)
  /\ r_credit' = r_credit - 1
  /\ r_delivery' = Append(r_delivery, "queued")
  /\ r_by' = Append(r_by, "none")
  /\ UNCHANGED <<notR, r_filter, prog, number_to_receive, received, rpc,
                 r_dispatched,
                 r_settled, cur_body, r_close_calls>>

\* handle_message
handle_message(m) == 1

\* proton::get<std::string>: only a string body is a std::string.
GetsString(b) == b = "string"

\* proton::coerce<std::string>: a string or a symbol converts.
CoercesToString(b) == b \in {"string", "symbol"}

\* server's on_message with its d.reject() in force.
Outcome_ServerRejects(p, b) ==
  CASE p = "receive_client_ack" ->
         IF GetsString(b) THEN "accepted" ELSE "rejected"
    [] p = "container_per_thread" ->
         IF ~CoercesToString(b) THEN "threw"
         ELSE IF handle_message(b) # 0 THEN "accepted" ELSE "rejected"
    [] p = "server" -> "rejected"
    [] OTHER -> "none"

\* receive_client_ack's on_message leaving a message it cannot convert alone.
Outcome_NoReject(p, b) ==
  CASE p = "receive_client_ack" ->
         IF GetsString(b) THEN "accepted" ELSE "none"
    [] p = "container_per_thread" ->
         IF ~CoercesToString(b) THEN "threw"
         ELSE IF handle_message(b) # 0 THEN "accepted" ELSE "rejected"
    [] OTHER -> "none"

\* container_per_thread's on_message without its accept and reject.
Outcome_NoDisposition(p, b) ==
  CASE p = "receive_client_ack" ->
         IF GetsString(b) THEN "accepted" ELSE "rejected"
    [] p = "container_per_thread" ->
         IF ~CoercesToString(b) THEN "threw" ELSE "none"
    [] OTHER -> "none"

\* What on_message does with a delivery whose message has body b: the
\* disposition it calls for ("accepted", "rejected"), "none" when it calls
\* for none, "threw" when it leaves by an exception before calling any.
Outcome(p, b) ==
  CASE p = "receive_client_ack" ->
         IF GetsString(b) THEN "accepted" ELSE "rejected"
    [] p = "container_per_thread" ->
         IF ~CoercesToString(b) THEN "threw"
         ELSE IF handle_message(b) # 0 THEN "accepted" ELSE "rejected"
    [] OTHER -> "none"

\* receive_selector applying a filter of its own: only string bodies count.
Counted_StringsOnly(p, b) ==
  IF p = "receive_selector" /\ b # "string" THEN 0 ELSE 1

\* received++ (count++): on_message counts the message whatever it holds.
Counted(p, b) == 1

\* An on_message that closes whenever the count has reached the number.
ClosesConnection_AtLeast(p, n) ==
  p \in {"receive_lots", "receive_selector"} /\ n >= number_to_receive

\* if (received == number_to_receive) d.connection().close(), with n the
\* value of received after received++; the other programs never close.
ClosesConnection(p, n) ==
  p \in {"receive_lots", "receive_selector"} /\ n = number_to_receive

\* on_message, for the oldest queued delivery, with a message of body b.
OnMessage(b) ==
  LET d == r_dispatched + 1
      n == received + Counted(prog, b)
      o == Outcome(prog, b) IN
  /\ rpc = "idle"
  /\ Queued > 0
  /\ r_dispatched' = d
  /\ received' = n
  /\ cur_body' = b
  /\ r_delivery' = [r_delivery EXCEPT ![d] =
                      IF o \in {"accepted", "rejected"} THEN o
                                                         ELSE "unsettled"]
  /\ r_by' = [r_by EXCEPT ![d] =
                IF o \in {"accepted", "rejected"} THEN "handler" ELSE "none"]
  /\ r_close_calls' =
       IF ClosesConnection(prog, n) THEN r_close_calls + 1
                                    ELSE r_close_calls
  /\ rpc' = IF o = "threw" THEN "failed" ELSE "default"
  /\ UNCHANGED <<notR, r_filter, prog, number_to_receive, r_credit, r_settled>>

\* After on_message returns: unless auto-accept is off, a delivery the
\* handler gave no disposition is accepted.
DefaultAccept ==
  LET d == r_dispatched IN
  /\ rpc = "default"
  /\ rpc' = "topup"
  /\ IF auto_accept(prog) /\ r_delivery[d] = "unsettled"
       THEN /\ r_delivery' = [r_delivery EXCEPT ![d] = "accepted"]
            /\ r_by' = [r_by EXCEPT ![d] = "default"]
       ELSE UNCHANGED <<r_delivery, r_by>>
  /\ UNCHANGED <<notR, r_filter, prog, number_to_receive, received, r_credit,
                 r_dispatched, r_settled, cur_body, r_close_calls>>

\* Then the link's credit is brought back up to the window: the link counts
\* the queued deliveries as credit in use.
CreditTopup ==
  /\ rpc = "topup"
  /\ rpc' = "idle"
  /\ r_credit' = credit_window(prog) - Queued
  /\ UNCHANGED <<notR, r_filter, prog, number_to_receive, received, r_delivery,
                 r_by,
                 r_dispatched, r_settled, cur_body, r_close_calls>>

\* on_delivery_settle: the peer settles the oldest delivery it has not yet
\* settled; the handlers log at most.
OnDeliverySettle ==
  /\ rpc = "idle"
  /\ r_settled < r_dispatched
  /\ r_settled' = r_settled + 1
  /\ UNCHANGED <<notR, r_filter, prog, number_to_receive, received, rpc,
                 r_credit,
                 r_delivery, r_by, r_dispatched, cur_body, r_close_calls>>

RNext ==
  \/ ReceiverOpen
  \/ Transfer
  \/ \E b \in Bodies : OnMessage(b)
  \/ DefaultAccept
  \/ CreditTopup
  \/ OnDeliverySettle

\* ---- receive_lots_multiple_connections, container_per_thread -------------

\* ---- bounds
MaxArrivals == 2     \* messages transferred on one connection
NumContainers == 2   \* containers of container_per_thread (THREADS)

\* receive_lots_multiple_connections, main: h1 and h2 open a connection each
Conns == 1..2

\* receive_lots_multiple_connections, main: container.run (2)
Workers == 1..2

\* container_per_thread, main: container i runs in thread i
Containers == 1..NumContainers

IdleWorker == [unit |-> 0, step |-> "idle", tmp |-> 0, body |-> "none"]

MIdle ==
  /\ m_prog = "none"
  /\ m_total = 0
  /\ m_count = <<>>
  /\ m_pending = <<>>
  /\ m_dispatched = <<>>
  /\ m_worker = <<>>
  /\ m_stopped = FALSE
  /\ m_touched = <<>>
  /\ m_settled = <<>>

\* receive_lots_multiple_connections: main constructs h1 and h2 for a number
\* of messages, connects each, and runs the container in two threads.
MCInit ==
  /\ m_prog = "receive_lots_multiple_connections"
  /\ m_total \in 1..MaxArrivals
  /\ m_count = [h \in Conns |-> 0]
  /\ m_pending = [c \in Conns |-> 0]
  /\ m_dispatched = [c \in Conns |-> 0]
  /\ m_worker = [w \in Workers |-> IdleWorker]
  /\ m_stopped = FALSE
  /\ m_touched = [h \in Conns |-> {}]
  /\ m_settled = [c \in Conns |-> <<>>]

\* Both connections made with the options of one handler.
ConnHandler_Shared(c) == 1

\* connect_to_address: proton::connection_options conn_options (*this): the
\* handler of connection c is the LoggingHandler that opened it.
ConnHandler(c) == c

\* The peer transfers a message on connection c.
MCTransfer(c) ==
  /\ ~m_stopped
  /\ m_pending[c] + m_dispatched[c] < MaxArrivals
  /\ m_pending' = [m_pending EXCEPT ![c] = @ + 1]
  /\ UNCHANGED <<notM, m_prog, m_total, m_count, m_dispatched, m_worker,
                 m_stopped, m_touched, m_settled>>

\* An idle worker thread of the container takes connection c, which no other
\* worker is serving, and calls on_message of its handler: received++ begins
\* with the load of received.
MCOnMessage(w, c) ==
  /\ ~m_stopped
  /\ m_worker[w].step = "idle"
  /\ \A v \in Workers : m_worker[v].unit # c
  /\ m_pending[c] > 0
  /\ m_pending' = [m_pending EXCEPT ![c] = @ - 1]
  /\ m_dispatched' = [m_dispatched EXCEPT ![c] = @ + 1]
  /\ m_worker' = [m_worker EXCEPT ![w] =
                    [unit |-> c, step |-> "store",
                     tmp |-> m_count[ConnHandler(c)], body |-> "none"]]
  /\ UNCHANGED <<notM, m_prog, m_total, m_count, m_stopped, m_touched,
                 m_settled>>

\* received++ ends with the store of received.
MCStore(w) ==
  /\ m_worker[w].step = "store"
  /\ m_count' = [m_count EXCEPT ![ConnHandler(m_worker[w].unit)] =
                   m_worker[w].tmp + 1]
  /\ m_worker' = [m_worker EXCEPT ![w].step = "test"]
  /\ UNCHANGED <<notM, m_prog, m_total, m_pending, m_dispatched, m_stopped,
                 m_touched, m_settled>>

\* if (received == number_to_receive) d.container().stop(); on_message
\* returns and the worker lets go of the connection.
MCTest(w) ==
  /\ m_worker[w].step = "test"
  /\ m_stopped' =
       (m_stopped \/ m_count[ConnHandler(m_worker[w].unit)] = m_total)
  /\ m_worker' = [m_worker EXCEPT ![w] = IdleWorker]
  /\ UNCHANGED <<notM, m_prog, m_total, m_count, m_pending, m_dispatched,
                 m_touched, m_settled>>

MCNext ==
  \/ \E c \in Conns : MCTransfer(c)
  \/ \E w \in Workers, c \in Conns : MCOnMessage(w, c)
  \/ \E w \in Workers : MCStore(w)
  \/ \E w \in Workers : MCTest(w)

\* container_per_thread: main makes a handler, a container and a thread for
\* each i.
CPTInit ==
  /\ m_prog = "container_per_thread"
  /\ m_total = 0
  /\ m_count = [h \in Containers |-> 0]
  /\ m_pending = [i \in Containers |-> 0]
  /\ m_dispatched = [i \in Containers |-> 0]
  /\ m_worker = [i \in Containers |-> IdleWorker]
  /\ m_stopped = FALSE
  /\ m_touched = [h \in Containers |-> {}]
  /\ m_settled = [i \in Containers |-> <<>>]

\* Every container made with one handler.
ContainerHandler_Shared(i) == 1

\* main: handler = new MyHandler (i); container = new container (*handler):
\* the handler of container i is the one made for it.
ContainerHandler(i) == i

\* The peer transfers a message on the connection of container i.
CPTTransfer(i) ==
  /\ m_worker[i].step # "failed"
  /\ m_pending[i] + m_dispatched[i] < MaxArrivals
  /\ m_pending' = [m_pending EXCEPT ![i] = @ + 1]
  /\ UNCHANGED <<notM, m_prog, m_total, m_count, m_dispatched, m_worker,
                 m_stopped, m_touched, m_settled>>

\* Thread i, which runs container i and nothing else, calls on_message of
\* the container's handler for a message of body b: count++ begins with the
\* load of count.
CPTOnMessage(i, b) ==
  /\ m_worker[i].step = "idle"
  /\ m_pending[i] > 0
  /\ m_pending' = [m_pending EXCEPT ![i] = @ - 1]
  /\ m_dispatched' = [m_dispatched EXCEPT ![i] = @ + 1]
  /\ m_worker' = [m_worker EXCEPT ![i] =
                    [unit |-> i, step |-> "store",
                     tmp |-> m_count[ContainerHandler(i)], body |-> b]]
  /\ m_touched' = [m_touched EXCEPT ![ContainerHandler(i)] = @ \cup {i}]
  /\ UNCHANGED <<notM, m_prog, m_total, m_count, m_stopped, m_settled>>

\* count++ ends with the store of count.
CPTStore(i) ==
  /\ m_worker[i].step = "store"
  /\ m_count' = [m_count EXCEPT ![ContainerHandler(i)] = m_worker[i].tmp + 1]
  /\ m_worker' = [m_worker EXCEPT ![i].step = "settle"]
  /\ UNCHANGED <<notM, m_prog, m_total, m_pending, m_dispatched, m_stopped,
                 m_touched, m_settled>>

\* The rest of on_message: coerce the body, then dlv.accept() or
\* dlv.reject() on the delivery of container i.  A body that does not coerce
\* throws: run() ends and run_container returns, the thread is over.
CPTSettle(i) ==
  LET o == Outcome("container_per_thread", m_worker[i].body) IN
  /\ m_worker[i].step = "settle"
  /\ IF o = "threw"
       THEN /\ m_worker' = [m_worker EXCEPT ![i].step = "failed"]
            /\ UNCHANGED m_settled
       ELSE /\ m_worker' = [m_worker EXCEPT ![i] = IdleWorker]
            /\ m_settled' = [m_settled EXCEPT ![i] =
                               Append(@, [outcome |-> o, by |-> i])]
  /\ UNCHANGED <<notM, m_prog, m_total, m_count, m_pending, m_dispatched,
                 m_stopped, m_touched>>

CPTNext ==
  \/ \E i \in Containers : CPTTransfer(i)
  \/ \E i \in Containers, b \in Bodies : CPTOnMessage(i, b)
  \/ \E i \in Containers : CPTStore(i)
  \/ \E i \in Containers : CPTSettle(i)

\* ---- server: the links a client attaches ---------------------------------

\* ---- bounds
MaxConns == 2        \* connections clients make to the listener
MaxLinks == 2        \* links attached on one connection
MaxServerMsgs == 1   \* messages the server receives

Clients == 1..MaxConns

\* Target addresses a client may ask for ("" when it names none).
Addresses == {"foo", "Foo", "bar", ""}

SrvIdle ==
  /\ v_conn = <<>>
  /\ v_error = <<>>
  /\ v_links = <<>>
  /\ v_received = 0

\* main: the container runs and listens; no client has connected.
SrvInit ==
  /\ v_conn = [c \in Clients |-> "none"]
  /\ v_error = [c \in Clients |-> "none"]
  /\ v_links = [c \in Clients |-> <<>>]
  /\ v_received = 0

\* A client connects; on_connection_open (the base handler) opens the
\* server's end of the connection.
OnConnectionOpen(c) ==
  /\ v_conn[c] = "none"
  /\ v_conn' = [v_conn EXCEPT ![c] = "open"]
  /\ UNCHANGED <<notV, v_error, v_links, v_received>>

\* A link as the server has it after the base handler opened its end.
OpenLink(r, a) == [role |-> r, address |-> a, state |-> "open",
                   error |-> "none"]

\* A link that went down with its connection, not by a close of its own.
Down(l) == [l EXCEPT !.state = "closed"]

\* r.close (proton::error_condition (e)): only the new link, the last of
\* links, is closed, with the condition on the link.
CloseForAddress_LinkOnly(c, links, e) ==
  /\ v_links' = [v_links EXCEPT ![c] =
                   [i \in 1..Len(links) |->
                      IF i = Len(links)
                        THEN [links[i] EXCEPT !.state = "closed", !.error = e]
                        ELSE links[i]]]
  /\ UNCHANGED <<v_conn, v_error>>

\* r.connection().close (proton::error_condition (e)): the connection is
\* closed with condition e, which the close frame carries to the client; the
\* links of the connection, the new one included, go down with it.
CloseForAddress(c, links, e) ==
  /\ v_conn' = [v_conn EXCEPT ![c] = "closed"]
  /\ v_error' = [v_error EXCEPT ![c] = e]
  /\ v_links' = [v_links EXCEPT ![c] =
                   [i \in 1..Len(links) |-> Down(links[i])]]

\* A server that takes every target address.
Refused_Never(a) == FALSE

\* if (address != "foo")
Refused(a) == a # "foo"

\* on_receiver_open: a client attaches a sending link with target address a.
OnReceiverOpen(c, a) ==
  LET links == Append(v_links[c], OpenLink("receiver", a)) IN
  /\ v_conn[c] = "open"
  /\ Len(v_links[c]) < MaxLinks
  /\ IF Refused(a)
       THEN CloseForAddress(c, links, "Invalid address")
       ELSE /\ v_links' = [v_links EXCEPT ![c] = links]
            /\ UNCHANGED <<v_conn, v_error>>
  /\ UNCHANGED <<notV, v_received>>

\* on_sender_open: a client attaches a receiving link, to consume.  The
\* handler does not look at the address asked for ("foo" here), and both
\* closes are commented out.
OnServerSenderOpen(c) ==
  /\ v_conn[c] = "open"
  /\ Len(v_links[c]) < MaxLinks
  /\ v_links' = [v_links EXCEPT ![c] = Append(@, OpenLink("sender", "foo"))]
  /\ UNCHANGED <<notV, v_conn, v_error, v_received>>

\* on_message: a message arrives on an open receiver link and is printed.
OnServerMessage(c, i) ==
  /\ v_conn[c] = "open"
  /\ i \in 1..Len(v_links[c])
  /\ v_links[c][i].role = "receiver"
  /\ v_links[c][i].state = "open"
  /\ v_received < MaxServerMsgs
  /\ v_received' = v_received + 1
  /\ UNCHANGED <<notV, v_conn, v_error, v_links>>

SrvNext ==
  \/ \E c \in Clients : OnConnectionOpen(c)
  \/ \E c \in Clients, a \in Addresses : OnReceiverOpen(c, a)
  \/ \E c \in Clients : OnServerSenderOpen(c)
  \/ \E c \in Clients, i \in 1..MaxLinks : OnServerMessage(c, i)

\* ---- receive_lots_multiple_consumers -------------------------------------

\* ---- bounds
MaxTotal == 3        \* number_to_receive the handler is constructed with
MaxConsumed == 3     \* messages transferred on one receiver

KIdle ==
  /\ k_total = 0
  /\ k_received = <<>>
  /\ k_conn = "none"
  /\ k_receivers = <<>>
  /\ k_pending = <<>>
  /\ k_invoked = <<>>
  /\ k_stop_calls = 0
  /\ k_stop_at = <<>>

\* A counter for each receiver.
ReceiverCounter_PerReceiver(r) == r

\* recv_options names no handler, and the container is made with h: the
\* on_message of every receiver is that of h, whose received is the counter.
ReceiverCounter(r) == 1

\* main: LoggingHandler h (..., total); container.run(), which calls
\* on_container_start: c.connect (host_and_port, conn_options).
KInit ==
  /\ k_total \in 1..MaxTotal
  /\ k_received = [h \in {ReceiverCounter(r) : r \in 1..2} |-> 0]
  /\ k_conn = "connecting"
  /\ k_receivers = <<>>
  /\ k_pending = <<>>
  /\ k_invoked = <<>>
  /\ k_stop_calls = 0
  /\ k_stop_at = <<>>

\* on_connection_open: two calls of c.open_receiver (address, recv_options).
OnConnectionOpen_Consumers ==
  /\ k_conn = "connecting"
  /\ k_conn' = "open"
  /\ k_receivers' = Append(Append(k_receivers, Len(k_receivers) + 1),
                           Len(k_receivers) + 2)
  /\ k_pending' = [r \in 1..(Len(k_receivers) + 2) |-> 0]
  /\ k_invoked' = [r \in 1..(Len(k_receivers) + 2) |-> 0]
  /\ UNCHANGED <<notK, k_total, k_received, k_stop_calls, k_stop_at>>

\* The broker transfers a message on receiver r.
KTransfer(r) ==
  /\ k_conn = "open"
  /\ k_pending[r] + k_invoked[r] < MaxConsumed
  /\ k_pending' = [k_pending EXCEPT ![r] = @ + 1]
  /\ UNCHANGED <<notK, k_total, k_received, k_conn, k_receivers, k_invoked,
                 k_stop_calls, k_stop_at>>

\* Calls of on_message made so far, over every receiver.
RECURSIVE SumTo(_, _)
SumTo(f, n) == IF n = 0 THEN 0 ELSE f[n] + SumTo(f, n - 1)

Invocations == SumTo(k_invoked, Len(k_invoked))

\* on_message for a message of receiver r, run by the one thread of
\* container.run(): received++; if (received == number_to_receive)
\* d.container().stop().  A message transferred before stop() was called can
\* still be dispatched after it.
OnMessage_Consumers(r) ==
  LET h == ReceiverCounter(r)
      n == k_received[h] + 1
  IN
  /\ k_conn \in {"open", "stopping"}
  /\ k_pending[r] > 0
  /\ k_pending' = [k_pending EXCEPT ![r] = @ - 1]
  /\ k_invoked' = [k_invoked EXCEPT ![r] = @ + 1]
  /\ k_received' = [k_received EXCEPT ![h] = n]
  /\ IF n = k_total
       THEN /\ k_stop_calls' = k_stop_calls + 1
            /\ k_stop_at' = Append(k_stop_at, Invocations + 1)
            /\ k_conn' = "stopping"
       ELSE UNCHANGED <<k_stop_calls, k_stop_at, k_conn>>
  /\ UNCHANGED <<notK, k_total, k_receivers>>

KNext ==
  \/ OnConnectionOpen_Consumers
  \/ \E r \in 1..Len(k_receivers) : KTransfer(r)
  \/ \E r \in 1..Len(k_receivers) : OnMessage_Consumers(r)

\* ---- send_receive_failover -----------------------------------------------

\* ---- bounds
MaxFailures == 1     \* transport failures of one connection
MaxChanges == 1      \* times a broker goes down or comes up
MaxAttempts == 2     \* connection attempts after one failure
MaxTraffic == 1      \* calls of on_sendable, of on_message, per attachment
MaxCredit == 2       \* credit a broker lets the sender hold

\* main: std::string address = "127.0.0.1:5672/foo"
address == [host |-> "127.0.0.1", port |-> 5672, path |-> "foo"]

\* main: std::string backup = "127.0.0.1:5673"
backup == [host |-> "127.0.0.1", port |-> 5673, path |-> ""]

\* No backup given to the connection options.
failover_urls_None == <<>>

\* on_container_start: std::vector<std::string> failovers {backup};
\* conn_options.failover_urls (failovers)
failover_urls == <<backup>>

\* A default-constructed proton::reconnect_options is given to
\* conn_options.reconnect: reconnection is on, without a limit of attempts.
reconnect == TRUE

\* The URLs a connection made with conn_options goes through: the one it was
\* opened with, then the failover URLs.
Urls == <<address>> \o failover_urls

\* The broker a URL leads to.
Endpoint(u) == <<u.host, u.port>>

Brokers == {Endpoint(address), Endpoint(backup)}

NoBroker == <<"", 0>>

\* receiver_options.credit_window (1000); c.open_receiver (address,
\* receiver_options, conn_options)
ReceiverLink == [kind |-> "receiver", address |-> address.path,
                 window |-> 1000]

\* c.open_sender (address, conn_options)
SenderLink == [kind |-> "sender", address |-> address.path, window |-> 0]

\* Link l is attached on the current transport of connection c.
Attached(c, l) == \E i \in 1..Len(f_remote[c]) : f_remote[c][i] = l

\* on_container_start opens the receiver and the sender on the container,
\* each with a URL: each gets a connection of its own.
FConns == 1..2

FOIdle ==
  /\ f_pc = "none"
  /\ f_up = <<>>
  /\ f_changes = 0
  /\ f_state = <<>>
  /\ f_at = <<>>
  /\ f_tried = <<>>
  /\ f_local = <<>>
  /\ f_remote = <<>>
  /\ f_opens = 0
  /\ f_failures = <<>>
  /\ f_reported = <<>>
  /\ f_sent = 0
  /\ f_received = 0
  /\ f_called = <<>>
  /\ f_credit = 0
  /\ f_inflight = 0
  /\ f_accepted = 0

\* main: MyHandler connect (address, backup, user, password), sent (0),
\* received (0).  Each broker is up or down.
FOInit ==
  /\ f_pc = "constructed"
  /\ f_up \in [Brokers -> BOOLEAN]
  /\ f_changes = 0
  /\ f_state = [c \in FConns |-> "none"]
  /\ f_at = [c \in FConns |-> NoBroker]
  /\ f_tried = [c \in FConns |-> <<>>]
  /\ f_local = [c \in FConns |-> <<>>]
  /\ f_remote = [c \in FConns |-> <<>>]
  /\ f_opens = 0
  /\ f_failures = [c \in FConns |-> 0]
  /\ f_reported = [c \in FConns |-> <<>>]
  /\ f_sent = 0
  /\ f_received = 0
  /\ f_called = [c \in FConns |-> FALSE]
  /\ f_credit = 0
  /\ f_inflight = 0
  /\ f_accepted = 0

\* A broker goes down or comes up.
BrokerChange(b) ==
  /\ f_changes < MaxChanges
  /\ f_changes' = f_changes + 1
  /\ f_up' = [f_up EXCEPT ![b] = ~@]
  /\ UNCHANGED <<notFO, f_credit, f_inflight, f_accepted,
                 f_pc, f_state, f_at, f_tried, f_local, f_remote,
                 f_opens, f_failures, f_reported, f_sent, f_received,
                 f_called>>

\* on_container_start: the connection options with the failover URLs and
\* the reconnect options, then open_receiver and open_sender.
OnContainerStart_Failover ==
  /\ f_pc = "constructed"
  /\ f_pc' = "started"
  /\ f_state' = [c \in FConns |-> "connecting"]
  /\ f_local' = [f_local EXCEPT ![1] = Append(@, ReceiverLink),
                                ![2] = Append(@, SenderLink)]
  /\ f_opens' = f_opens + 2
  /\ UNCHANGED <<notFO, f_credit, f_inflight, f_accepted,
                 f_up, f_changes, f_at, f_tried, f_remote, f_failures,
                 f_reported, f_sent, f_received, f_called>>

\* The URL of the next attempt of connection c: the URLs in their order,
\* begun again from the first after the last, and after a connection that
\* was established.
NextUrl(c) == Urls[(Len(f_tried[c]) % Len(Urls)) + 1]

\* An attempt of connection c at a broker that is down fails; with
\* reconnection on, the next URL will be tried.
ConnectRefused(c) ==
  /\ f_state[c] = "connecting"
  /\ reconnect \/ f_tried[c] = <<>>
  /\ Len(f_tried[c]) < MaxAttempts
  /\ ~f_up[Endpoint(NextUrl(c))]
  /\ f_tried' = [f_tried EXCEPT ![c] = Append(@, Endpoint(NextUrl(c)))]
  /\ UNCHANGED <<notFO, f_credit, f_inflight, f_accepted,
                 f_pc, f_up, f_changes, f_state, f_at, f_local,
                 f_remote, f_opens, f_failures, f_reported, f_sent,
                 f_received, f_called>>

\* c.virtual_host() on a connection made with URL u: the host of the URL the
\* connection was opened with or of u, or, as the comment in
\* on_connection_open has it for Proton 0.37.0, always the empty string.
virtual_host(u) == {"", address.host, u.host}

\* An attempt of connection c at a broker that is up succeeds: the links
\* opened on the connection are attached again as they were opened, and
\* on_connection_open is called, which calls the base handler and prints
\* c.virtual_host().
OnConnectionOpen_Failover(c) ==
  /\ f_state[c] = "connecting"
  /\ reconnect \/ f_tried[c] = <<>>
  /\ Len(f_tried[c]) < MaxAttempts
  /\ f_up[Endpoint(NextUrl(c))]
  /\ f_tried' = [f_tried EXCEPT ![c] = Append(@, Endpoint(NextUrl(c)))]
  /\ f_state' = [f_state EXCEPT ![c] = "open"]
  /\ f_at' = [f_at EXCEPT ![c] = Endpoint(NextUrl(c))]
  /\ f_remote' = [f_remote EXCEPT ![c] = f_local[c]]
  /\ \E h \in virtual_host(NextUrl(c)) :
       f_reported' = [f_reported EXCEPT ![c] = <<h>>]
  /\ f_called' = [f_called EXCEPT ![c] = FALSE]
  /\ UNCHANGED <<notFO, f_credit, f_inflight, f_accepted,
                 f_pc, f_up, f_changes, f_local, f_opens, f_failures,
                 f_sent, f_received>>

\* Handlers that start counting again after an error.
CounterAfterError_Reset(n) == IF n > 0 THEN 0 ELSE n

\* on_connection_error, on_error, on_connection_close: log and call the base
\* handler; a counter of value n is left as it is.
CounterAfterError(n) == n

\* The transport of connection c fails: on_connection_error, on_error and
\* on_connection_close are called, and open nothing.  The sender's credit
\* and its unsettled messages are those of the attachment that is gone.
TransportFailure(c) ==
  /\ f_state[c] = "open"
  /\ f_failures[c] < MaxFailures
  /\ f_failures' = [f_failures EXCEPT ![c] = @ + 1]
  /\ f_state' = [f_state EXCEPT ![c] = "connecting"]
  /\ f_at' = [f_at EXCEPT ![c] = NoBroker]
  /\ f_tried' = [f_tried EXCEPT ![c] = <<>>]
  /\ f_remote' = [f_remote EXCEPT ![c] = <<>>]
  /\ f_credit' = IF c = 2 THEN 0 ELSE f_credit
  /\ f_inflight' = IF c = 2 THEN 0 ELSE f_inflight
  /\ f_sent' = CounterAfterError(f_sent)
  /\ f_received' = CounterAfterError(f_received)
  /\ UNCHANGED <<notFO, f_accepted, f_pc, f_up, f_changes, f_local, f_opens,
                 f_reported, f_called>>

\* on_message, for a message the broker transfers on the receiver while it
\* is attached: received++.
OnMessage_Failover ==
  /\ f_state[1] = "open"
  /\ Attached(1, ReceiverLink)
  /\ f_received < MaxTraffic + f_failures[1]
  /\ f_received' = f_received + 1
  /\ f_called' = [f_called EXCEPT ![1] = TRUE]
  /\ UNCHANGED <<notFO, f_credit, f_inflight, f_accepted,
                 f_pc, f_up, f_changes, f_state, f_at, f_tried,
                 f_local, f_remote, f_opens, f_failures, f_reported, f_sent>>

\* The broker grants the sender g more units of credit.
SenderFlow(g) ==
  /\ f_state[2] = "open"
  /\ Attached(2, SenderLink)
  /\ f_credit + g <= MaxCredit
  /\ f_sent < MaxTraffic + f_failures[2]
  /\ f_credit' = f_credit + g
  /\ UNCHANGED <<notFO, f_inflight, f_accepted, f_pc, f_up, f_changes,
                 f_state, f_at, f_tried, f_local, f_remote, f_opens,
                 f_failures, f_reported, f_sent, f_received, f_called>>

\* A broker accepts a message the sender sent on its current attachment;
\* the handler has no on_tracker_accept.
BrokerAccept ==
  /\ f_state[2] = "open"
  /\ f_inflight > 0
  /\ f_inflight' = f_inflight - 1
  /\ f_accepted' = f_accepted + 1
  /\ UNCHANGED <<notFO, f_credit, f_pc, f_up, f_changes, f_state, f_at,
                 f_tried, f_local, f_remote, f_opens, f_failures, f_reported,
                 f_sent, f_received, f_called>>

\* An on_sendable that sends for as long as the link has credit.
MessagesPerCall_AllCredit(c) == c

\* on_sendable with link credit c: one s.send (msg) and one sent++; the
\* credit is not read.
MessagesPerCall(c) == 1

\* on_sendable, which the container calls while the sender is attached and
\* has credit: s.send (msg); sent++.  Each message sent uses one unit of
\* credit.
OnSendable_Failover ==
  LET m == MessagesPerCall(f_credit) IN
  /\ f_state[2] = "open"
  /\ Attached(2, SenderLink)
  /\ f_credit > 0
  /\ f_sent < MaxTraffic + f_failures[2]
  /\ f_sent' = f_sent + m
  /\ f_credit' = f_credit - m
  /\ f_inflight' = f_inflight + m
  /\ f_called' = [f_called EXCEPT ![2] = TRUE]
  /\ UNCHANGED <<notFO, f_accepted, f_pc, f_up, f_changes, f_state, f_at,
                 f_tried,
                 f_local, f_remote, f_opens, f_failures, f_reported,
                 f_received>>

FONext ==
  \/ \E b \in Brokers : BrokerChange(b)
  \/ OnContainerStart_Failover
  \/ \E c \in FConns : ConnectRefused(c)
  \/ \E c \in FConns : OnConnectionOpen_Failover(c)
  \/ \E c \in FConns : TransportFailure(c)
  \/ OnMessage_Failover
  \/ \E g \in 1..MaxCredit : SenderFlow(g)
  \/ OnSendable_Failover
  \/ BrokerAccept

\* ---- specifications ------------------------------------------------------

\* send_across_threads
Init ==
  SATInit /\ SLIdle /\ RIdle /\ MIdle /\ SrvIdle /\ KIdle /\ FOIdle

Next == SATNext

Spec == Init /\ [][Next]_vars

\* The threads run, the container finishes the callback it is in, drains
\* its work queue and calls on_sendable while the link has credit, and a free
\* mutex is eventually obtained.  The peer (on_sender_open, Flow, on_error)
\* and spurious wake-ups are under no obligation.
FairSpec ==
  /\ Spec
  /\ WF_vars(ContainerStep)
  /\ SF_vars(OnSendableLock)
  /\ \A t \in Threads :
       /\ WF_vars(SendCall(t) \/ SendTest(t) \/ SendWait(t) \/ SendCheck(t)
                    \/ SendAdd(t))
       /\ SF_vars(SendLock(t) \/ SendRelock(t))

\* send_across_threads as main() runs it
MainProgramInit ==
  MainInit /\ SLIdle /\ RIdle /\ MIdle /\ SrvIdle /\ KIdle /\ FOIdle

MainSpec == MainProgramInit /\ [][MainNext]_vars

\* As FairSpec; main() goes on, and run() returns once stop() was called.
FairMainSpec ==
  /\ MainSpec
  /\ WF_vars(ContainerStep)
  /\ SF_vars(OnSendableLock)
  /\ SF_vars(RunReturns)
  /\ WF_vars(MainStep)
  /\ \A t \in Threads :
       /\ WF_vars(SendCall(t) \/ SendTest(t) \/ SendWait(t) \/ SendCheck(t)
                    \/ SendAdd(t))
       /\ SF_vars(SendLock(t) \/ SendRelock(t))

\* send_lots, send_lots_tls, send_lots_leaky
SendLotsInit ==
  SATInit /\ SLInit /\ RIdle /\ MIdle /\ SrvIdle /\ KIdle /\ FOIdle

SendLotsSpec == SendLotsInit /\ [][SLNext]_vars

\* The container calls on_sendable when the link has credit to offer.  The
\* peer is under no obligation to grant credit or to settle.
FairSendLotsSpec == SendLotsSpec /\ WF_vars(OnSendable)

\* receive_lots, receive_selector, receive_client_ack, container_per_thread,
\* server
ReceiverInit ==
  SATInit /\ SLIdle /\ RInit /\ MIdle /\ SrvIdle /\ KIdle /\ FOIdle

ReceiverSpec == ReceiverInit /\ [][RNext]_vars

\* receive_lots_multiple_connections
MultiConnInit ==
  SATInit /\ SLIdle /\ RIdle /\ MCInit /\ SrvIdle /\ KIdle /\ FOIdle

MultiConnSpec == MultiConnInit /\ [][MCNext]_vars

\* container_per_thread, its containers side by side
PerThreadInit ==
  SATInit /\ SLIdle /\ RIdle /\ CPTInit /\ SrvIdle /\ KIdle /\ FOIdle

PerThreadSpec == PerThreadInit /\ [][CPTNext]_vars

\* server, the links attached to it
ServerInit ==
  SATInit /\ SLIdle /\ RIdle /\ MIdle /\ SrvInit /\ KIdle /\ FOIdle

ServerSpec == ServerInit /\ [][SrvNext]_vars

\* receive_lots_multiple_consumers
MultiConsumerInit ==
  SATInit /\ SLIdle /\ RIdle /\ MIdle /\ SrvIdle /\ KInit /\ FOIdle

MultiConsumerSpec == MultiConsumerInit /\ [][KNext]_vars

\* send_receive_failover
FailoverInit ==
  SATInit /\ SLIdle /\ RIdle /\ MIdle /\ SrvIdle /\ KIdle /\ FOInit

FailoverSpec == FailoverInit /\ [][FONext]_vars

\* ---- the receiving programs: properties ---------------------------------

Delivered == 1..Len(r_delivery)

\* Deliveries transferred and not yet given a disposition.
Undisposed == {d \in Delivered : r_delivery[d] \in {"queued", "unsettled"}}

\* Deliveries whose on_message, and the default response after it, are over.
Handled == {d \in Delivered :
              d < r_dispatched \/ (d = r_dispatched /\ rpc \in {"topup", "idle"})}

WindowedReceivers == {"receive_lots", "container_per_thread"}
DefaultReceivers == {"receive_lots", "receive_selector", "server"}

\* C7: with credit window W (3 in receive_lots, 10 in container_per_thread)
\* at most W deliveries are transferred and without a disposition at any
\* instant, and credit goes up only when the link opens or after the
\* delivery just handled has been given its disposition.
C7_AtMostWindowUndisposed ==
  /\ [](prog \in WindowedReceivers =>
          Cardinality(Undisposed) <= (IF prog = "receive_lots" THEN 3 ELSE 10))
  /\ [][(prog \in WindowedReceivers /\ r_credit' > r_credit) =>
          \/ rpc = "unopened"
          \/ /\ rpc = "topup"
             /\ r_delivery[r_dispatched] \in {"accepted", "rejected"}]_vars

\* C7 witness: after a replenishment the window is full again: W deliveries
\* are without a disposition and the peer has no credit left.
C7_Witness ==
  /\ prog \in WindowedReceivers
  /\ r_dispatched > 0
  /\ r_credit = 0
  /\ Cardinality(Undisposed) = credit_window(prog)

\* C8 (as claimed): in receive_lots, receive_selector and server a delivery
\* has a disposition only by an explicit call of the handler.
C8_DispositionOnlyByHandler ==
  prog \in DefaultReceivers =>
    \A d \in Delivered :
      r_delivery[d] \in {"accepted", "rejected"} => r_by[d] = "handler"

\* C8 (amended): in receive_lots, receive_selector and server, which leave
\* auto-accept at its default, on_message calls for no disposition and
\* every delivery is accepted by default once its on_message has returned.
C8_AcceptedByDefault ==
  prog \in DefaultReceivers =>
    /\ \A d \in Handled : r_delivery[d] = "accepted" /\ r_by[d] = "default"
    /\ \A d \in Delivered \ Handled : r_delivery[d] \in {"queued", "unsettled"}

\* C8 witness: server's on_message has returned and the delivery is accepted.
C8_Witness ==
  /\ prog = "server"
  /\ rpc = "idle"
  /\ r_dispatched > 0
  /\ r_delivery[1] = "accepted"

\* C9: in receive_client_ack every delivery passed to on_message has exactly
\* one outcome, given by the handler: accepted when the body is a string,
\* rejected otherwise; and the outcome never changes afterwards.
C9_OneTerminalOutcome ==
  /\ [](prog = "receive_client_ack" =>
          /\ \A d \in 1..r_dispatched :
               r_delivery[d] \in {"accepted", "rejected"} /\ r_by[d] = "handler"
          /\ r_dispatched > 0 =>
               r_delivery[r_dispatched] =
                 (IF cur_body = "string" THEN "accepted" ELSE "rejected"))
  /\ [][prog = "receive_client_ack" =>
          \A d \in 1..r_dispatched : r_delivery'[d] = r_delivery[d]]_vars

\* C9 witness: a rejected delivery has been through the default response and
\* a settlement event, and a later delivery has been handled.
C9_Witness ==
  /\ prog = "receive_client_ack"
  /\ \E d \in 1..r_dispatched :
       /\ r_delivery[d] = "rejected"
       /\ d <= r_settled
       /\ d < r_dispatched

\* Deliveries to which the handler itself gave a disposition.
DisposedByHandler == {d \in Delivered : r_by[d] = "handler"}

\* C25: in container_per_thread every delivery passed to on_message has
\* exactly one disposition, given by the handler before on_message returns
\* (accepted, as handle_message returns non-zero), and count equals the
\* number of dispositions the handler has issued.
C25_OneDispositionPerMessage ==
  prog = "container_per_thread" =>
    /\ \A d \in 1..r_dispatched :
         r_delivery[d] = "accepted" /\ r_by[d] = "handler"
    /\ received = Cardinality(DisposedByHandler)

\* C27: in receive_selector the filter map reaches the source only with
\* the attach of the receiver and has the single entry my_selector, the
\* selector as a described string; on_message counts every message passed
\* to it, whatever its body, and calls connection.close() in the call that
\* brings the count to number_to_receive.
C27_SelectorSetOnceNeverApplied ==
  [][prog = "receive_selector" =>
       /\ r_filter' # r_filter
            => /\ rpc = "unopened"
               /\ r_filter' = {[key |-> "my_selector",
                                descriptor |->
                                  "apache.org:selector-filter:string",
                                value |-> "foo='bar'"]}
       /\ rpc' # "unopened" => Cardinality(r_filter') = 1
       /\ received' = r_dispatched'
       /\ r_dispatched' # r_dispatched
            => /\ received' = received + 1
               /\ r_close_calls' =
                    IF received' = number_to_receive
                      THEN r_close_calls + 1 ELSE r_close_calls
       /\ r_close_calls' # r_close_calls
            => r_dispatched' # r_dispatched]_vars

\* C27 witness: receive_selector has counted messages of every kind of
\* body, the last a number, and closed the connection on reaching
\* number_to_receive.
C27_Witness ==
  /\ prog = "receive_selector"
  /\ Cardinality(r_filter) = 1
  /\ number_to_receive = 2
  /\ received = 2
  /\ cur_body = "int"
  /\ r_close_calls = 1

\* C33: in receive_lots, close() is called in the on_message that brings
\* received to number_to_receive and in no other step, so exactly once when
\* received has reached number_to_receive and not before; an on_message
\* after it increases received and calls no close().
C33_ClosesOnceAtNumberToReceive ==
  /\ [](prog = "receive_lots" =>
         r_close_calls = IF received >= number_to_receive THEN 1 ELSE 0)
  /\ [][prog = "receive_lots" =>
         /\ r_close_calls' # r_close_calls <=>
              (received' = received + 1 /\ received' = number_to_receive)
         /\ r_dispatched' # r_dispatched => received' = received + 1]_vars

\* C33 witness: receive_lots has passed a delivery to on_message after the
\* one that called close().
C33_Witness ==
  /\ prog = "receive_lots"
  /\ received > number_to_receive
  /\ r_close_calls = 1

\* ---- receive_lots_multiple_consumers: properties ------------------------

\* C26: the messages of both receivers are counted by the one received
\* counter, which therefore equals the number of on_message calls made over
\* both receivers, and container.stop() is called exactly once, in the call
\* that brings that combined number to number_to_receive, and in no other.
C26_OneCounterStopsAtTotal ==
  /\ \A r \in 1..Len(k_receivers) :
       k_received[ReceiverCounter(r)] = Invocations
  /\ k_stop_at = IF Invocations >= k_total THEN <<k_total>> ELSE <<>>
  /\ k_stop_calls = Len(k_stop_at)

\* stop() has been called after both receivers delivered messages.
C26_Witness ==
  /\ k_stop_calls = 1
  /\ k_invoked[1] > 0
  /\ k_invoked[2] > 0

\* ---- send_receive_failover: properties ----------------------------------

\* C21: when the primary broker is down and the backup is up from the start,
\* a connection that is open was accepted by the backup, the handler has
\* made no call beyond the two opens of on_container_start, and the host
\* on_connection_open printed is the host of the broker that accepted.
C21_BackupAcceptsAndIsReported ==
  \A c \in DOMAIN f_state :
    ( /\ f_changes = 0
      /\ ~f_up[Endpoint(address)]
      /\ f_up[Endpoint(backup)]
      /\ f_failures[c] = 0
      /\ f_state[c] = "open" )
    => /\ f_at[c] = Endpoint(backup)
       /\ f_opens = 2
       /\ f_reported[c] = <<f_at[c][1]>>

\* C22: after a transport failure of a connection, the brokers it tries are
\* the primary, then the backup, in turn; once it is open again the receiver
\* with its credit window of 1000, or the sender, is attached as it was
\* opened; and the handler has made no open call beyond the two of
\* on_container_start.
C22_FailoverRestoresLinks ==
  \A c \in DOMAIN f_state :
    f_failures[c] > 0 =>
      /\ \A i \in 1..Len(f_tried[c]) :
           f_tried[c][i] = IF i % 2 = 1 THEN <<"127.0.0.1", 5672>>
                                        ELSE <<"127.0.0.1", 5673>>
      /\ f_state[c] = "open" =>
           f_remote[c] =
             IF c = 1
               THEN <<[kind |-> "receiver", address |-> "foo",
                       window |-> 1000]>>
               ELSE <<[kind |-> "sender", address |-> "foo", window |-> 0]>>
      /\ f_opens = 2

\* Both connections failed; the receiver's found the primary down and was
\* accepted by the backup; on_message and on_sendable have been called since.
C22_Witness ==
  /\ f_pc = "started"
  /\ f_failures[1] > 0
  /\ f_failures[2] > 0
  /\ f_tried[1] = <<Endpoint(address), Endpoint(backup)>>
  /\ f_at[1] = Endpoint(backup)
  /\ f_state[2] = "open"
  /\ f_called[1]
  /\ f_called[2]

\* C34: a step that changes sent is an on_sendable taken with credit on the
\* link, which sends one message, using one unit of credit, and adds one to
\* sent, however much credit there is; the credit of the link is never
\* below zero.
C34_OneSendPerSendable ==
  /\ [](f_credit >= 0)
  /\ [][f_sent' # f_sent =>
         /\ f_credit > 0
         /\ f_sent' = f_sent + 1
         /\ f_credit' = f_credit - 1
         /\ f_inflight' = f_inflight + 1]_vars

\* C34 witness: on_sendable has sent a message, and not a second one for
\* the credit the link still has.
C34_Witness ==
  /\ f_sent = 1
  /\ f_inflight = 1
  /\ f_accepted = 0
  /\ f_failures[2] = 0
  /\ f_credit > 0

\* C35: sent and received never decrease; a step in which a connection
\* fails or is opened again leaves both as they are; sent is the number of
\* messages handed to s.send, of which the brokers have accepted no more.
C35_CountersSurviveFailover ==
  /\ [](f_accepted <= f_sent)
  /\ [][/\ f_sent' >= f_sent
        /\ f_received' >= f_received
        /\ (f_failures' # f_failures \/ f_state' # f_state) =>
             UNCHANGED <<f_sent, f_received>>]_vars

\* C35 witness: after a failover of the sender's connection nothing is in
\* flight, and sent is larger than the number of messages accepted; the
\* receiver's connection failed too, with messages received before.
C35_Witness ==
  /\ f_failures[2] > 0
  /\ f_state[2] = "open"
  /\ f_inflight = 0
  /\ f_sent > f_accepted
  /\ f_failures[1] > 0
  /\ f_received > 0

\* ---- send_across_threads: properties -----------------------------------

\* Closures handed to the work queue so far (pending or already run).
Submitted == Len(queue) + transfers

\* Positions of send() up to and including the test of error_raised.
BeforeEnqueue == {"lock", "test", "towait", "waiting", "woken", "check"}

\* C1: a send() leaves its wait loop only when the work queue exists and
\* (the recorded credit is positive or an error has been raised).
C1_LeavesLoopOnlyWithQueueAndCredit ==
  [][\A t \in Threads :
       (pc[t] = "test" /\ pc'[t] = "check")
         => (work_queue /\ (current_sender_credit > 0 \/ error_raised))]_vars

\* C2: with credit C granted to the link, at most C send() calls proceed to
\* enqueue a closure: the closures submitted never outnumber the credit
\* granted, so no unit of credit is spent twice.
C2_NoMoreSubmittedThanGranted == Submitted <= granted

\* C3: once on_error has run, every thread that is inside send() and has not
\* yet passed the test of error_raised eventually leaves send() with an
\* exception; none stays blocked on ready_to_send for ever.
C3_ErrorReleasesEverySender ==
  \A t \in Threads :
    [](error_raised /\ pc[t] \in BeforeEnqueue => <>(pc[t] = "threw"))

\* C6 (as claimed): current_sender_credit is the credit granted minus the
\* transfers submitted, and is never negative.
C6_CreditIsGrantedMinusSubmitted ==
  /\ current_sender_credit = granted - Submitted
  /\ current_sender_credit >= 0

\* C6 (amended): current_sender_credit changes only when on_sendable stores
\* it, to the link's credit at that moment (credit granted minus transfers
\* sent); submitting or sending a transfer leaves it alone; it is never
\* negative.
C6_CreditIsSnapshotOfOnSendable ==
  [][/\ current_sender_credit' >= 0
     /\ (cpc = "sendable_store" /\ cpc' = "idle")
          => current_sender_credit' = granted - transfers
     /\ current_sender_credit' # current_sender_credit
          => (cpc = "sendable_store" /\ cpc' = "idle")]_vars

\* C6 witness: the recorded credit is stale: transfers were sent after
\* on_sendable recorded it.
C6_Witness ==
  /\ current_sender_credit > 0
  /\ transfers > 0
  /\ current_sender_credit > granted - transfers

\* C10: when error_raised is true as send() comes out of its wait, send()
\* throws; the step adds no closure and leaves the work queue and the sender
\* unchanged, and a thread that threw never enqueues.
C10_ErrorMeansThrowWithoutEnqueue ==
  [][\A t \in Threads :
       /\ (pc[t] = "check" /\ error_raised /\ pc'[t] # pc[t])
            => /\ pc'[t] = "threw"
               /\ queue' = queue
               /\ transfers' = transfers
               /\ link_credit' = link_credit
               /\ sender' = sender
               /\ work_queue' = work_queue
       /\ pc[t] = "threw" => pc'[t] = "threw"]_vars

\* C10 witness: a send() threw although the work queue exists and credit
\* was recorded.
C10_Witness ==
  \E t \in Threads :
    /\ pc[t] = "threw"
    /\ work_queue
    /\ current_sender_credit > 0

\* The container thread stores error_raised in this step.
WritesErrorRaised == cpc = "idle" /\ cpc' = "error_notify"

\* The container thread stores current_sender_credit in this step.
WritesCredit == cpc = "sendable_store" /\ cpc' = "idle"

\* Thread t evaluates the loop condition of send() in this step: it reads
\* current_sender_credit and error_raised.
ReadsInLoop(t) == pc[t] = "test" /\ pc'[t] # "test"

\* Thread t evaluates `if (error_raised)` in this step.
ReadsAfterLoop(t) == pc[t] = "check" /\ pc'[t] # "check"

\* C11: every read and every write of current_sender_credit and of
\* error_raised, by the container's callbacks and by the foreground threads
\* in send(), is made by a thread that holds the mutex.
C11_FieldsAccessedUnderLock ==
  [][/\ WritesErrorRaised => lock = Container
     /\ WritesCredit => lock = Container
     /\ \A t \in Threads :
          /\ ReadsInLoop(t) => lock = t
          /\ ReadsAfterLoop(t) => lock = t]_vars

\* C12: sender.send is called only by the container, as a closure taken
\* from the head of the work queue; a step of a foreground thread in send()
\* leaves the sender and its link (credit, transfers) as they are.
C12_SendOnlyByContainerClosure ==
  [][/\ (transfers' # transfers \/ link_credit' < link_credit)
          => /\ cpc = "idle" /\ cpc' = "idle"
             /\ pc' = pc
             /\ queue # <<>>
             /\ queue' = Tail(queue)
             /\ transfers' = transfers + 1
     /\ pc' # pc
          => UNCHANGED <<sender, link_credit, granted, transfers>>]_vars

\* C12 witness: a closure has been run while another thread is inside
\* send().
C12_Witness ==
  /\ transfers > 0
  /\ \E t \in Threads : pc[t] \in BeforeEnqueue \cup {"add"}

\* C13: the closures one foreground thread enqueues in successive calls of
\* send() are run by the container in the order of the calls: a closure
\* that runs was made by a later call than every closure of the same
\* thread that ran before it.
C13_ClosuresRunInCallOrder ==
  [][transfers' # transfers
       => \E t \in Threads :
            /\ last_run'[t] > last_run[t]
            /\ \A u \in Threads \ {t} : last_run'[u] = last_run[u]]_vars

\* C13 witness: the closure of main's second send() has run after it had
\* been pending together with the closure of the first.
C13_Witness ==
  /\ last_run[Main] = 2
  /\ transfers = 2
  /\ calls[Main] = count
  /\ queue # <<>>

\* C15: main() terminates: once the handler has recorded credit or an
\* error, the send loop ends (all count calls returned, or a send() threw),
\* container.stop() is called, run() returns and join() completes.
C15_MainTerminates ==
  [](error_raised \/ current_sender_credit > 0 => <>(pc[Main] = "done"))

\* Positions of the container inside on_sendable, the mutex taken.
InOnSendable == {"sendable_notify", "sendable_store"}

\* C24: on_sendable notifies and stores current_sender_credit as one atomic
\* step with respect to send(): from the notification to the store the
\* container holds the mutex, no thread is at or evaluates its wait
\* predicate, and the threads it woke are still waiting for the mutex, so
\* the first value of the credit they read is the one this on_sendable
\* stored (or a later one).
C24_NotifyAndStoreAtomic ==
  [][/\ cpc \in InOnSendable
          => /\ lock = Container
             /\ \A t \in Threads :
                  /\ pc[t] \notin {"test", "towait"}
                  /\ ~ReadsInLoop(t)
     /\ (cpc = "sendable_notify" /\ cpc' = "sendable_store")
          => \A t \in Threads :
               pc[t] = "waiting" => (pc'[t] = "woken" /\ lock' = Container)
     /\ WritesCredit
          => \A t \in Threads : pc[t] = "woken" => pc'[t] = "woken"]_vars

\* C24 witness: on_sendable has notified and not yet stored the credit; a
\* thread it woke is waiting for the mutex.
C24_Witness ==
  /\ cpc = "sendable_store"
  /\ current_sender_credit = 0
  /\ \E t \in Threads : pc[t] = "woken"

\* C29: error_raised is sticky: no step resets it, and while it is set a
\* send() never waits, takes the throwing branch at its test of the flag
\* and never reaches work_queue->add: the queue only grows by calls that
\* passed the test before the error.
C29_ErrorIsSticky ==
  [][error_raised
       => /\ error_raised'
          /\ \A t \in Threads :
               /\ ReadsInLoop(t) => pc'[t] = "check"
               /\ ReadsAfterLoop(t) => pc'[t] = "threw"
               /\ pc'[t] = "add" => pc[t] = "add"
          /\ Len(queue') > Len(queue)
               => \E t \in Threads : pc[t] = "add"]_vars

\* C29 witness: with the work queue and recorded credit at hand, every
\* thread's send() has thrown and nothing was ever enqueued.
C29_Witness ==
  /\ error_raised
  /\ work_queue
  /\ current_sender_credit > 0
  /\ \A t \in Threads : pc[t] = "threw"
  /\ Submitted = 0

\* C30: whenever send() is at work_queue->add, the work queue pointer is
\* set and on_sender_open has stored the sender: no send() dereferences a
\* null work_queue.
C30_AddOnlyWithWorkQueue ==
  \A t \in Threads :
    /\ pc[t] = "add" => (work_queue /\ sender)
    /\ pc[t] # "crashed"

\* C30 witness: a send() is at work_queue->add although no credit was ever
\* recorded: it left the loop because the work queue exists.
C30_Witness ==
  /\ current_sender_credit = 0
  /\ ~error_raised
  /\ \E t \in Threads : pc[t] = "add"

\* ---- multiple connections, container per thread: properties -------------

\* 1 while an on_message for connection (or container) u has loaded its
\* counter and not yet stored it, else 0.
InFlight(u) ==
  IF \E w \in DOMAIN m_worker :
       m_worker[w].unit = u /\ m_worker[w].step = "store"
    THEN 1 ELSE 0

\* C16: in receive_lots_multiple_connections no two worker threads run
\* callbacks of the same connection at once, and the received counter of
\* each handler equals the number of messages passed to on_message on its
\* connection: no update is lost.
C16_SerializedPerConnection ==
  /\ \A w1, w2 \in Workers :
       (w1 # w2 /\ m_worker[w1].unit # 0)
         => m_worker[w1].unit # m_worker[w2].unit
  /\ \A c \in Conns : m_count[c] = m_dispatched[c] - InFlight(c)

\* C16 witness: both worker threads are inside on_message at once, one for
\* each connection, between the load and the store of received, and a
\* message has been counted before.
C16_Witness ==
  /\ \A w \in Workers : m_worker[w].step = "store"
  /\ \E c \in Conns : m_count[c] >= 1

\* C17: in container_per_thread the count of each handler is used only by
\* the thread of its own container, each delivery is accepted or rejected
\* by the thread of the container that received it, and so each count
\* equals the messages passed to on_message of its container.
C17_HandlersNotShared ==
  /\ \A h \in Containers : m_touched[h] \subseteq {h}
  /\ \A i \in Containers :
       \A k \in 1..Len(m_settled[i]) : m_settled[i][k].by = i
  /\ \A i \in Containers : m_count[i] = m_dispatched[i] - InFlight(i)

\* C17 witness: every thread is inside on_message at once, after a delivery
\* has been accepted.
C17_Witness ==
  /\ \A i \in Containers : m_worker[i].step \in {"store", "settle"}
  /\ \E i \in Containers :
       /\ m_settled[i] # <<>>
       /\ m_settled[i][1].outcome = "accepted"

\* ---- server: properties --------------------------------------------------

\* In this step a client attaches a sending link on connection c (the
\* server's on_receiver_open runs).
Attaches(c) ==
  /\ Len(v_links'[c]) = Len(v_links[c]) + 1
  /\ v_links'[c][Len(v_links'[c])].role = "receiver"

\* The address the link attached in this step asked for.
AttachedAddress(c) == v_links'[c][Len(v_links'[c])].address

\* C18 (as claimed): an attach refused for its address ends with an error
\* on the link and the connection open: the other links of the connection
\* stay as they were.
C18_RefusalIsLinkLevel ==
  [][\A c \in Clients :
       (Attaches(c) /\ AttachedAddress(c) # "foo")
         => LET n == Len(v_links'[c]) IN
            /\ v_links'[c][n].error # "none"
            /\ v_conn'[c] = "open"
            /\ \A i \in 1..(n - 1) : v_links'[c][i] = v_links[c][i]]_vars

\* C18 (amended): an attach refused for its address closes the connection
\* that carried it, with the condition "Invalid address" on the connection
\* and none on the link; every link of that connection goes down with it,
\* and the other connections are left as they were.
C18_RefusalClosesConnection ==
  [][\A c \in Clients :
       (Attaches(c) /\ AttachedAddress(c) # "foo")
         => /\ v_conn'[c] = "closed"
            /\ v_error'[c] = "Invalid address"
            /\ \A i \in 1..Len(v_links'[c]) :
                 /\ v_links'[c][i].state = "closed"
                 /\ v_links'[c][i].error = "none"
            /\ \A d \in Clients \ {c} :
                 /\ v_conn'[d] = v_conn[d]
                 /\ v_error'[d] = v_error[d]
                 /\ v_links'[d] = v_links[d]]_vars

\* C18 witness: a link to "foo" was open on a connection and went down
\* when a second attach, to another address, closed the connection, while
\* another connection is still open.
C18_Witness ==
  \E c, d \in Clients :
    /\ v_conn[c] = "closed"
    /\ Len(v_links[c]) = 2
    /\ v_links[c][1].address = "foo"
    /\ v_links[c][1].role = "receiver"
    /\ v_links[c][1].state = "closed"
    /\ v_links[c][2].address = "bar"
    /\ v_conn[d] = "open"

\* C19: every attach of an incoming link to a target address other than
\* "foo" raises the condition "Invalid address", sent to the client with
\* the close; an attach to "foo" closes nothing and raises no condition.
C19_ErrorExactlyForOtherAddresses ==
  [][\A c \in Clients :
       Attaches(c)
         => IF AttachedAddress(c) = "foo"
              THEN /\ v_conn'[c] = "open"
                   /\ v_error'[c] = "none"
                   /\ v_links'[c][Len(v_links'[c])].state = "open"
                   /\ v_links'[c][Len(v_links'[c])].error = "none"
                   /\ \A i \in 1..Len(v_links[c]) :
                        v_links'[c][i] = v_links[c][i]
              ELSE /\ v_conn'[c] = "closed"
                   /\ v_error'[c] = "Invalid address"]_vars

\* C19 witness: one client's link to "foo" is open and has carried a
\* message; another client's attach to "Foo" had the condition raised.
C19_Witness ==
  \E c, d \in Clients :
    /\ v_conn[c] = "open"
    /\ v_error[c] = "none"
    /\ v_links[c] # <<>>
    /\ v_links[c][1] = OpenLink("receiver", "foo")
    /\ v_received > 0
    /\ v_error[d] = "Invalid address"
    /\ v_links[d][Len(v_links[d])].address = "Foo"

\* C20: a link on which a client consumes (a sender, for the server) is
\* never left open: the server answers its attach with an error.
C20_ConsumerRefused ==
  \A c \in DOMAIN v_links :
    \A i \in 1..Len(v_links[c]) :
      v_links[c][i].role = "sender"
        => (v_links[c][i].state = "closed"
              /\ (v_links[c][i].error # "none" \/ v_error[c] # "none"))

====
